---- MODULE Spec2Model ----
(***************************************************************************)
(* Model of the Backend of the real-time image detection service:          *)
(*   main.py          the HTTP upload handler and the WebSocket handler    *)
(*                    with its per-connection frame-drop scheduler         *)
(*   model_worker.py  the shared ThreadPoolExecutor behind run_inference   *)
(*   config.py        the tunable constants                                *)
(*                                                                         *)
(* asyncio runs every coroutine on one thread: the code between two        *)
(* awaits is one atomic step.  The worker threads of the executor run in   *)
(* parallel with that thread, so starting and finishing a job are steps    *)
(* of their own.                                                           *)
(***************************************************************************)
EXTENDS Integers, Sequences, FiniteSets, TLC

\* ------------------------------------------------------------------------
\* Bounds of the model
\* ------------------------------------------------------------------------
NumConns == 2        \* WebSocket connections
NumHttp == 1         \* HTTP uploads
MaxMsgs == 3         \* client events (text messages, uploads, disconnects),
                     \* all clients together
MaxB64Len == 4       \* length of the base64 text of a frame
NumLabels == 4       \* labels of the label set (20 in config.py)

Conns == 1..NumConns
Https == 1..NumHttp

\* ------------------------------------------------------------------------
\* config.py
\* ------------------------------------------------------------------------
\* The label set; a label is named by its place in the list
CLASS_NAMES == [i \in 1..NumLabels |-> <<"label", i - 1>>]
TOP_K == 3
\* 5.0 percent, in hundredths of a percent
CONFIDENCE_THRESHOLD == 500
MAX_INFERENCE_WORKERS == 2
WS_MAX_MESSAGE_BYTES == 2 * 1024 * 1024
MAX_UPLOAD_BYTES == 10 * 1024 * 1024
ALLOWED_MIME_TYPES ==
    {"image/jpeg", "image/png", "image/gif", "image/bmp", "image/webp"}

\* ------------------------------------------------------------------------
\* Inbound WebSocket text messages
\* ------------------------------------------------------------------------
\* pending_frame[0] is None
None == 0

\* One character of the text under the "frame" key: a character of the
\* base64 alphabet, the pad character, a character outside the alphabet.
B64Chars == {"A", "=", "!"}
B64Strings == UNION {[1..n -> B64Chars] : n \in 0..MaxB64Len}

\* What json.loads(raw) yields: JSONDecodeError ("malformed") or a value.
\* "string+" is a string with the substring frame, "list+" a list with the
\* element "frame", "object-" an object without the key, "object#" an object
\* whose "frame" is no string, "object" an object whose "frame" is a string.
JsonScalars == {"null", "number", "bool"}
JsonKinds == {"malformed", "null", "number", "bool", "string", "string+",
              "list", "list+", "object-", "object#", "object"}

\* len(raw) at the two sides of the size guard: the guard is
\* len(raw) > WS_MAX_MESSAGE_BYTES * 1.4
WsLimitLen == (WS_MAX_MESSAGE_BYTES * 14) \div 10
RawLens == {WsLimitLen, WsLimitLen + 1}

Msgs ==
    {[len |-> WsLimitLen, json |-> "object", frame |-> s] : s \in B64Strings}
    \cup {[len |-> l, json |-> k, frame |-> <<>>] :
             l \in RawLens, k \in JsonKinds \ {"object"}}
    \cup {[len |-> WsLimitLen + 1, json |-> "object",
           frame |-> <<"A", "A", "A", "A">>]}

\* base64.b64decode(s) with validate=False (binascii.a2b_base64): characters
\* outside the alphabet are skipped, a pad ends the input once it completes a
\* quad, and leftover characters of an incomplete quad are an error.  The
\* value is the number of decoded bytes, or B64Error.
B64Error == -1
RECURSIVE a2b_base64(_, _, _, _, _)
a2b_base64(s, i, quad_pos, pads, nbytes) ==
    IF i > Len(s)
    THEN IF quad_pos # 0 THEN B64Error ELSE nbytes
    ELSE IF s[i] = "="
         THEN IF quad_pos >= 2 /\ quad_pos + pads + 1 >= 4
              THEN nbytes
              ELSE a2b_base64(s, i + 1, quad_pos,
                              IF quad_pos >= 2 THEN pads + 1 ELSE pads, nbytes)
         ELSE IF s[i] = "!"
              THEN a2b_base64(s, i + 1, quad_pos, pads, nbytes)
              ELSE a2b_base64(s, i + 1, (quad_pos + 1) % 4, 0,
                              IF quad_pos = 0 THEN nbytes ELSE nbytes + 1)

b64decode(s) == a2b_base64(s, 1, 0, 0, 0)

\* "frame" in msg, for the values on which the operator `in` is defined
HasFrame(m) == m.json \in {"string+", "list+", "object#", "object"}

\* The receive loop's decision on one message, in the order of the code:
\* the error it replies with, "TypeError" for the exception nothing catches,
\* or "store" when the frame goes to the mailbox.
RecvOutcome(m) ==
    IF 10 * m.len > 14 * WS_MAX_MESSAGE_BYTES THEN "Frame too large."
    ELSE IF m.json = "malformed" THEN "Invalid JSON."
    ELSE IF m.json \in JsonScalars THEN "TypeError"
    ELSE IF ~HasFrame(m) THEN "Missing 'frame' key."
    ELSE IF m.json # "object" THEN "Invalid base64 in 'frame'."
    ELSE IF b64decode(m.frame) = B64Error THEN "Invalid base64 in 'frame'."
    ELSE "store"

\* ------------------------------------------------------------------------
\* State
\* ------------------------------------------------------------------------
VARIABLES
    conn,           \* per connection: "open", "closing" (the peer is gone, the
                    \* handler has not yet seen WebSocketDisconnect), "closed"
    pending_frame,  \* the mailbox: None or the pending frame
    busy,           \* the asyncio.Event busy
    loop_task,      \* where inference_loop is: "poll", "await", "done" (left
                    \* by break), "cancelled"
    frame_bytes,    \* the loop's local frame_bytes
    fut,            \* the result run_inference has ready for the loop
    outbox,         \* the messages send_json has sent on the connection
    arrived,        \* history: number of frames stored in the mailbox so far
    picked,         \* history: the frames the loop has picked up, in order
    handlerExc,     \* an exception has escaped ws_predict
    queue,          \* the executor's work queue
    running,        \* the jobs the executor's worker threads are running
    http,           \* per upload: where predict_image is, and its response
    hfut,           \* the result run_inference has ready for predict_image
    nrecv,          \* number of client events so far
    boot,           \* the import of model_worker: "importing", "ready",
                    \* "failed" (ValueError)
    executor,       \* _executor has been created
    output_shape,   \* _model.output_shape[-1]
    top_k,          \* TOP_K of the configuration
    threshold,      \* CONFIDENCE_THRESHOLD of the configuration
    raw,            \* the confidence vector _model.predict returns
    predicted,      \* _predict_sync has returned
    results         \* what _predict_sync returned

srvVars == <<conn, pending_frame, busy, loop_task, frame_bytes, fut, outbox,
             arrived, picked, handlerExc, queue, running, http, hfut, nrecv>>

mwVars == <<boot, executor, output_shape, top_k, threshold, raw, predicted,
            results>>

vars == <<srvVars, mwVars>>

wsVars == <<conn, pending_frame, busy, loop_task, frame_bytes, fut, outbox,
            arrived, picked, handlerExc>>

\* A frame is named by its position in its connection's arrival order.
WsJob(c, f) == [src |-> "ws", who |-> c, frame |-> f]
HttpJob(h) == [src |-> "http", who |-> h, frame |-> None]

\* Where predict_image is, and the status and content of its JSONResponse
Response(pc, status, body) == [pc |-> pc, status |-> status, body |-> body]

ServerInit ==
    /\ conn = [c \in Conns |-> "open"]
    /\ pending_frame = [c \in Conns |-> None]
    /\ busy = [c \in Conns |-> FALSE]
    /\ loop_task = [c \in Conns |-> "poll"]
    /\ frame_bytes = [c \in Conns |-> None]
    /\ fut = [c \in Conns |-> "none"]
    /\ outbox = [c \in Conns |-> <<>>]
    /\ arrived = [c \in Conns |-> 0]
    /\ picked = [c \in Conns |-> <<>>]
    /\ handlerExc = [c \in Conns |-> FALSE]
    /\ queue = <<>>
    /\ running = {}
    /\ http = [h \in Https |-> Response("idle", 0, "none")]
    /\ hfut = [h \in Https |-> "none"]
    /\ nrecv = 0

\* The server after a start with the configuration of config.py and a
\* classifier that matches the label set
Init ==
    /\ ServerInit
    /\ boot = "ready"
    /\ executor = TRUE
    /\ output_shape = Len(CLASS_NAMES)
    /\ top_k = TOP_K
    /\ threshold = CONFIDENCE_THRESHOLD
    /\ raw = [i \in 1..output_shape |-> 0]
    /\ predicted = FALSE
    /\ results = <<>>

\* ------------------------------------------------------------------------
\* model_worker.py: the executor
\* ------------------------------------------------------------------------
\* loop.run_in_executor(_executor, _predict_sync, image_bytes)
run_inference(j) == Append(queue, j)

\* Variant: a pool that starts a thread for every work item
WorkerAlwaysFree == TRUE

\* A worker thread takes the next work item only when one of the
\* max_workers threads is free.
WorkerFree == Cardinality(running) < MAX_INFERENCE_WORKERS

WorkerStart ==
    /\ queue # <<>>
    /\ WorkerFree
    /\ running' = running \cup {Head(queue)}
    /\ queue' = Tail(queue)
    /\ UNCHANGED <<wsVars, http, hfut, nrecv>>
    /\ UNCHANGED mwVars

\* Variant: the result is delivered whether or not the future was cancelled
AwaitedAlways(j) == TRUE

\* The coroutine that awaits job j, if it still does
Awaited(j) ==
    IF j.src = "ws"
    THEN loop_task[j.who] = "await" /\ frame_bytes[j.who] = j.frame
    ELSE http[j.who].pc = "await"

\* _predict_sync returns or raises in its worker thread; the result reaches
\* the awaiting coroutine's future unless that future was cancelled.
WorkerFinish(j, res) ==
    /\ j \in running
    /\ running' = running \ {j}
    /\ fut' = IF j.src = "ws" /\ Awaited(j)
              THEN [fut EXCEPT ![j.who] = res] ELSE fut
    /\ hfut' = IF j.src = "http" /\ Awaited(j)
               THEN [hfut EXCEPT ![j.who] = res] ELSE hfut
    /\ UNCHANGED <<conn, pending_frame, busy, loop_task, frame_bytes, outbox,
                   arrived, picked, handlerExc, queue, http, nrecv>>
    /\ UNCHANGED mwVars

\* ------------------------------------------------------------------------
\* main.py: ws_predict, the scheduler loop
\* ------------------------------------------------------------------------
LoopMsg(kind, f) == [src |-> "loop", kind |-> kind, frame |-> f]
\* The reply of the receive loop, {"error": text}; the state keeps that it
\* is an error reply of the receive loop, not its text.
RecvMsg(text) == [src |-> "recv", kind |-> "error", frame |-> None]

\* Variant: a frame that finds the mailbox full is dropped (the oldest wins)
StoreFrameIfEmpty(c, f) ==
    IF pending_frame[c] = None THEN [pending_frame EXCEPT ![c] = f]
    ELSE pending_frame

\* Variant: a frame that arrives while the loop is busy is dropped
StoreFrameUnlessBusy(c, f) ==
    IF busy[c] THEN pending_frame ELSE [pending_frame EXCEPT ![c] = f]

\* Variant: one mailbox for all connections
StoreFrameShared(c, f) == [d \in Conns |-> f]

\* pending_frame[0] = frame_bytes in the receive loop
StoreFrame(c, f) == [pending_frame EXCEPT ![c] = f]

\* Variant: the loop reads the mailbox and leaves the frame in it
ConsumeNot(c) == pending_frame

\* pending_frame[0] = None in the scheduler loop
Consume(c) == [pending_frame EXCEPT ![c] = None]

\* Variant: the loop starts run_inference without awaiting it
LoopWaitsNoAwait(c) == loop_task[c] \in {"poll", "await"}

\* The scheduler loop leaves `while pending_frame[0] is None` only from its
\* sleep, never while it awaits run_inference.
LoopWaits(c) == loop_task[c] = "poll"

\* Variant: the frame is taken without busy.set()
TakeFrameNoMark(c) ==
    /\ busy' = [busy EXCEPT ![c] = FALSE]
    /\ frame_bytes' = [frame_bytes EXCEPT ![c] = pending_frame[c]]
    /\ pending_frame' = Consume(c)
    /\ picked' = [picked EXCEPT ![c] = Append(@, pending_frame[c])]
    /\ queue' = run_inference(WsJob(c, pending_frame[c]))
    /\ fut' = [fut EXCEPT ![c] = "none"]
    /\ loop_task' = [loop_task EXCEPT ![c] = "await"]

\* From the top of `while True` with a frame in the mailbox to the await of
\* run_inference: mark busy, take the frame, empty the mailbox, submit.
TakeFrame(c) ==
    /\ busy' = [busy EXCEPT ![c] = TRUE]
    /\ frame_bytes' = [frame_bytes EXCEPT ![c] = pending_frame[c]]
    /\ pending_frame' = Consume(c)
    /\ picked' = [picked EXCEPT ![c] = Append(@, pending_frame[c])]
    /\ queue' = run_inference(WsJob(c, pending_frame[c]))
    /\ fut' = [fut EXCEPT ![c] = "none"]
    /\ loop_task' = [loop_task EXCEPT ![c] = "await"]

\* The loop wakes from asyncio.sleep(0.01) and finds a frame.
InferenceLoopPickUp(c) ==
    /\ LoopWaits(c)
    /\ pending_frame[c] # None
    /\ TakeFrame(c)
    /\ UNCHANGED <<conn, outbox, arrived, handlerExc, running, http, hfut,
                   nrecv>>
    /\ UNCHANGED mwVars

\* What the loop sends for a result of run_inference
ResultMsg(c) ==
    IF fut[c] = "ok" THEN LoopMsg("predictions", frame_bytes[c])
    ELSE LoopMsg("error", frame_bytes[c])

\* Variant: send_json may raise on an open connection too
SendOutcomesAnyFail(c) == {TRUE, FALSE}

\* send_json on an open connection returns; once the peer is gone it either
\* still returns or raises.
SendOutcomes(c) == IF conn[c] = "open" THEN {TRUE} ELSE {TRUE, FALSE}

\* Variant: a failed classification is logged and nothing is sent
SendResultOkOnly(c) ==
    IF fut[c] = "ok" THEN Append(outbox[c], ResultMsg(c)) ELSE outbox[c]

\* await websocket.send_json(...) of the predictions, or of the error in the
\* handler of `except Exception`
SendResult(c) == Append(outbox[c], ResultMsg(c))

\* Variant: the handler of `except Exception` always ends in `break`
LoopContinuesOkOnly(c, sent) == sent /\ fut[c] = "ok"

\* The loop goes round unless send_json raised: then the handler's own
\* send_json raises too and the loop leaves by `break`.
LoopContinues(c, sent) == sent

\* run_inference returns or raises in the loop: the loop sends the
\* predictions or the error, clears busy in `finally` and goes round, taking
\* the next frame at once when the mailbox holds one.
InferenceLoopReturn(c) ==
    /\ loop_task[c] = "await"
    /\ fut[c] # "none"
    /\ \E sent \in SendOutcomes(c) :
          /\ outbox' = IF sent THEN [outbox EXCEPT ![c] = SendResult(c)]
                       ELSE outbox
          /\ IF LoopContinues(c, sent)
             THEN IF pending_frame[c] # None
                  THEN TakeFrame(c)
                  ELSE /\ busy' = [busy EXCEPT ![c] = FALSE]
                       /\ loop_task' = [loop_task EXCEPT ![c] = "poll"]
                       /\ fut' = [fut EXCEPT ![c] = "none"]
                       /\ UNCHANGED <<pending_frame, frame_bytes, picked,
                                      queue>>
             ELSE /\ busy' = [busy EXCEPT ![c] = FALSE]
                  /\ loop_task' = [loop_task EXCEPT ![c] = "done"]
                  /\ fut' = [fut EXCEPT ![c] = "none"]
                  /\ UNCHANGED <<pending_frame, frame_bytes, picked, queue>>
    /\ UNCHANGED <<conn, arrived, handlerExc, running, http, hfut, nrecv>>
    /\ UNCHANGED mwVars

\* ------------------------------------------------------------------------
\* main.py: ws_predict, the receive loop and the end of the handler
\* ------------------------------------------------------------------------
NotOf(c, j) == ~(j.src = "ws" /\ j.who = c)

\* Variant: the loop has no `finally: busy.clear()`
CancelLoopNoFinally(c) ==
    /\ loop_task' = [loop_task EXCEPT
                       ![c] = IF @ = "done" THEN "done" ELSE "cancelled"]
    /\ busy' = busy
    /\ fut' = [fut EXCEPT ![c] = "none"]
    /\ queue' = SelectSeq(queue, LAMBDA j : NotOf(c, j))

\* loop_task.cancel() and `await loop_task` in the handler's `finally`:
\* CancelledError is raised at the loop's await, `finally` clears busy; the
\* future of a job still in the executor's queue is cancelled with it, a job
\* a worker thread is already running goes on.
CancelLoop(c) ==
    /\ loop_task' = [loop_task EXCEPT
                       ![c] = IF @ = "done" THEN "done" ELSE "cancelled"]
    /\ busy' = [busy EXCEPT ![c] = FALSE]
    /\ fut' = [fut EXCEPT ![c] = "none"]
    /\ queue' = SelectSeq(queue, LAMBDA j : NotOf(c, j))

\* `except WebSocketDisconnect` and `except asyncio.CancelledError: pass`:
\* whether an exception leaves the handler when the peer disconnects
DisconnectEscapes == FALSE

\* Variant: a rejected message empties the mailbox
ContinueClearsMailbox(c) == [pending_frame EXCEPT ![c] = None]

\* The mailbox after an error reply and `continue`: no assignment is made
Continue(c) == pending_frame

\* raw = await websocket.receive_text() and the body of the receive loop
ReceiveText(c, m) ==
    /\ conn[c] = "open"
    /\ nrecv < MaxMsgs
    /\ nrecv' = nrecv + 1
    /\ LET out == RecvOutcome(m) IN
       IF out = "store"
       THEN /\ pending_frame' = StoreFrame(c, arrived[c] + 1)
            /\ arrived' = [arrived EXCEPT ![c] = @ + 1]
            /\ UNCHANGED <<conn, busy, loop_task, fut, outbox, handlerExc,
                           queue>>
       ELSE IF out = "TypeError"
       THEN /\ CancelLoop(c)
            /\ conn' = [conn EXCEPT ![c] = "closed"]
            /\ handlerExc' = [handlerExc EXCEPT ![c] = TRUE]
            /\ UNCHANGED <<pending_frame, arrived, outbox>>
       ELSE /\ outbox' = [outbox EXCEPT ![c] = Append(@, RecvMsg(out))]
            /\ pending_frame' = Continue(c)
            /\ UNCHANGED <<conn, arrived, busy, loop_task, fut, handlerExc,
                           queue>>
    /\ UNCHANGED <<frame_bytes, picked, running, http, hfut>>
    /\ UNCHANGED mwVars

\* The client goes away.
PeerClose(c) ==
    /\ conn[c] = "open"
    /\ nrecv < MaxMsgs
    /\ nrecv' = nrecv + 1
    /\ conn' = [conn EXCEPT ![c] = "closing"]
    /\ UNCHANGED <<pending_frame, busy, loop_task, frame_bytes, fut, outbox,
                   arrived, picked, handlerExc, queue, running, http, hfut>>
    /\ UNCHANGED mwVars

\* receive_text raises WebSocketDisconnect: the handler's except and finally
Disconnect(c) ==
    /\ conn[c] = "closing"
    /\ conn' = [conn EXCEPT ![c] = "closed"]
    /\ CancelLoop(c)
    /\ handlerExc' = [handlerExc EXCEPT ![c] = DisconnectEscapes]
    /\ UNCHANGED <<pending_frame, frame_bytes, outbox, arrived, picked,
                   running, http, hfut, nrecv>>
    /\ UNCHANGED mwVars

\* ------------------------------------------------------------------------
\* main.py: predict_image
\* ------------------------------------------------------------------------
ContentTypes == ALLOWED_MIME_TYPES \cup {"text/plain", "none"}
UploadSizes == {0, MAX_UPLOAD_BYTES, MAX_UPLOAD_BYTES + 1}

\* Variant: the length of the upload is never checked
UploadAcceptedAnySize(ctype, size) == ctype \in ALLOWED_MIME_TYPES

\* The two guards of predict_image
UploadAccepted(ctype, size) ==
    ctype \in ALLOWED_MIME_TYPES /\ ~(size > MAX_UPLOAD_BYTES)

\* The error of the 400 response of the guard that rejects the upload
RejectBody(ctype, size) ==
    IF ctype \notin ALLOWED_MIME_TYPES THEN "Unsupported type"
    ELSE "File too large."

HttpRequest(h, ctype, size) ==
    /\ http[h].pc = "idle"
    /\ nrecv < MaxMsgs
    /\ nrecv' = nrecv + 1
    /\ IF UploadAccepted(ctype, size)
       THEN /\ queue' = run_inference(HttpJob(h))
            /\ http' = [http EXCEPT ![h] = Response("await", 0, "none")]
       ELSE /\ http' = [http EXCEPT
                         ![h] = Response("done", 400, RejectBody(ctype, size))]
            /\ UNCHANGED queue
    /\ UNCHANGED <<wsVars, running, hfut>>
    /\ UNCHANGED mwVars

HttpReturn(h) ==
    /\ http[h].pc = "await"
    /\ hfut[h] # "none"
    /\ http' = [http EXCEPT
                 ![h] = IF hfut[h] = "ok"
                        THEN Response("done", 200, "predictions")
                        ELSE Response("done", 400, "str(e)")]
    /\ hfut' = [hfut EXCEPT ![h] = "none"]
    /\ UNCHANGED <<wsVars, queue, running, nrecv>>
    /\ UNCHANGED mwVars

\* ------------------------------------------------------------------------
\* model_worker.py: start-up and _predict_sync
\* ------------------------------------------------------------------------
\* The values a configuration gives TOP_K and CONFIDENCE_THRESHOLD
TopKs == 0..(NumLabels + 1)
Thresholds == {0, CONFIDENCE_THRESHOLD, 870}

\* The dimensions of the classifier's output: the label set's, one less,
\* one more
OutputShapes == {NumLabels - 1, NumLabels, NumLabels + 1}

\* Confidences of the classifier, in units of 0.00001: two that differ by
\* less than the rounding and lie on both sides of 5.0 percent, and one above
RawValues == {4994, 4996, 8700}

\* round(float(raw[idx]) * 100, 2), in hundredths of a percent; no value of
\* RawValues lies halfway between two hundredths
Confidence(r) == (r + 5) \div 10

\* Variant: start-up without the comparison of the two lengths
ShapeMatchesUnchecked(n) == TRUE

\* _model.output_shape[-1] != len(CLASS_NAMES) does not raise
ShapeMatches(n) == n = Len(CLASS_NAMES)

\* The import of model_worker: the model is loaded, the lengths are compared,
\* and only then the executor is created.
ImportModule ==
    /\ boot = "importing"
    /\ IF ShapeMatches(output_shape)
       THEN boot' = "ready" /\ executor' = TRUE
       ELSE boot' = "failed" /\ executor' = FALSE
    /\ UNCHANGED <<output_shape, top_k, threshold, raw, predicted, results>>
    /\ UNCHANGED srvVars

\* The orders of the places S of v by ascending confidence
RECURSIVE Ascending(_, _)
Ascending(v, S) ==
    IF S = {} THEN {<<>>}
    ELSE UNION {{<<m>> \o rest : rest \in Ascending(v, S \ {m})} :
                m \in {x \in S : \A y \in S : v[x] <= v[y]}}

\* raw.argsort(): the places by ascending confidence.  The default kind of
\* sort is not stable, so places of equal confidence come in any order.
argsort(v) == Ascending(v, DOMAIN v)

\* Variant: the slice [:k], the k lowest
SliceLowest(s, k) == SubSeq(s, 1, IF k < Len(s) THEN k ELSE Len(s))

\* The slice [-k:]; -0 is 0, so [-0:] is the whole sequence
SliceLast(s, k) ==
    IF k = 0 \/ k >= Len(s) THEN s ELSE SubSeq(s, Len(s) - k + 1, Len(s))

\* The slice [::-1]
Reversed(s) == [i \in 1..Len(s) |-> s[Len(s) + 1 - i]]

\* CLASS_NAMES[idx]
Label(idx) ==
    IF idx \in DOMAIN CLASS_NAMES THEN CLASS_NAMES[idx] ELSE <<"IndexError">>

\* The loop over top_indices
FormatResults(v, top_indices, floor) ==
    SelectSeq([i \in 1..Len(top_indices) |->
                  [label |-> Label(top_indices[i]),
                   confidence |-> Confidence(v[top_indices[i]])]],
              LAMBDA e : e.confidence >= floor)

\* _predict_sync, reached through run_inference and the executor, which
\* exist only after the import
PredictSync ==
    /\ boot = "ready"
    /\ executor
    /\ \E order \in argsort(raw) :
          results' = FormatResults(raw, Reversed(SliceLast(order, top_k)),
                                   threshold)
    /\ predicted' = TRUE
    /\ UNCHANGED <<boot, executor, output_shape, top_k, threshold, raw>>
    /\ UNCHANGED srvVars

\* ------------------------------------------------------------------------
\* Specification
\* ------------------------------------------------------------------------
Jobs == {WsJob(c, f) : c \in Conns, f \in 1..MaxMsgs} \cup {HttpJob(h) : h \in Https}

\* ReceiveText reads the message only through RecvOutcome, so one message
\* of each outcome yields every successor state that Msgs yields.
MsgSamples ==
    {CHOOSE m \in Msgs : RecvOutcome(m) = o : o \in {RecvOutcome(m) : m \in Msgs}}

Next ==
    \/ \E c \in Conns, m \in MsgSamples : ReceiveText(c, m)
    \/ \E c \in Conns : InferenceLoopPickUp(c)
    \/ \E c \in Conns : InferenceLoopReturn(c)
    \/ \E c \in Conns : PeerClose(c)
    \/ \E c \in Conns : Disconnect(c)
    \/ WorkerStart
    \/ \E j \in Jobs, res \in {"ok", "fail"} : WorkerFinish(j, res)
    \/ \E h \in Https, ctype \in ContentTypes, size \in UploadSizes :
          HttpRequest(h, ctype, size)
    \/ \E h \in Https : HttpReturn(h)

\* The event loop resumes every coroutine that is ready (the loop's sleep
\* ends, the awaited future has its result), a free worker thread takes the
\* next work item, and every call of the classifier returns or raises.
Fairness ==
    /\ \A c \in Conns : WF_vars(InferenceLoopPickUp(c))
    /\ \A c \in Conns : WF_vars(InferenceLoopReturn(c))
    /\ WF_vars(WorkerStart)
    /\ \A j \in Jobs : WF_vars(\E res \in {"ok", "fail"} : WorkerFinish(j, res))

Spec == Init /\ [][Next]_vars

FairSpec == Spec /\ Fairness

\* The process from the import of model_worker on, for every configuration,
\* classifier output dimension and confidence vector of the bounds
WorkerInit ==
    /\ ServerInit
    /\ boot = "importing"
    /\ executor = FALSE
    /\ output_shape \in OutputShapes
    /\ top_k \in TopKs
    /\ threshold \in Thresholds
    /\ raw \in [1..output_shape -> RawValues]
    /\ predicted = FALSE
    /\ results = <<>>

WorkerNext == ImportModule \/ PredictSync

WorkerSpec == WorkerInit /\ [][WorkerNext]_vars

\* ------------------------------------------------------------------------
\* Properties
\* ------------------------------------------------------------------------
\* The classifications of connection c that are submitted and not completed
InFlight(c) ==
    Len(SelectSeq(queue, LAMBDA j : ~NotOf(c, j)))
    + Cardinality({j \in running : ~NotOf(c, j)})

InSeq(x, s) == \E i \in 1..Len(s) : s[i] = x

\* The messages the scheduler loop has sent on connection c
LoopMsgs(c) == SelectSeq(outbox[c], LAMBDA m : m.src = "loop")

\* C1: at every instant at most one classification submitted by a
\* connection's scheduler loop is submitted and not yet completed.
C1_OneInFlight == \A c \in Conns : InFlight(c) <= 1

\* C1 witness: a frame is waiting in the mailbox while the classification of
\* an earlier frame of the same connection is in flight.
C1_Witness ==
    \E c \in Conns : InFlight(c) = 1 /\ pending_frame[c] # None
                     /\ conn[c] = "open"

\* C2: the mailbox holds nothing or the most recently arrived frame, which
\* has not been picked up; a frame that was overwritten in the mailbox is
\* never picked up afterwards.
C2_MailboxLatest ==
    /\ [](\A c \in Conns :
            pending_frame[c] # None =>
                /\ pending_frame[c] = arrived[c]
                /\ ~InSeq(pending_frame[c], picked[c]))
    /\ [][\A c \in Conns : \A f \in 1..arrived[c] :
            (f # pending_frame[c] /\ ~InSeq(f, picked[c]))
                => ~InSeq(f, picked'[c])]_vars

\* C2 witness: frame 2 sits in the mailbox after it overwrote frame 1, which
\* was never picked up.
C2_Witness ==
    \E c \in Conns : /\ pending_frame[c] = 2
                     /\ picked[c] = <<>>

\* C3: the picked-up frames are in strictly increasing arrival order, and a
\* frame is picked up only while no newer frame has arrived.
C3_PickOrder ==
    /\ [](\A c \in Conns : \A i, j \in 1..Len(picked[c]) :
            i < j => picked[c][i] < picked[c][j])
    /\ [][\A c \in Conns :
            picked'[c] # picked[c]
                => picked'[c] = Append(picked[c], arrived[c])]_vars

\* C3 witness: frames 1 and 3 were picked up in that order and frame 2,
\* superseded by frame 3, was skipped.
C3_Witness == \E c \in Conns : picked[c] = <<1, 3>>

\* C5: the k-th message of the scheduler loop answers the k-th picked-up
\* frame, and while the connection is open every picked-up frame whose
\* classification is over has exactly one message.
C5_OneMessagePerPickUp ==
    \A c \in Conns :
        LET lm == LoopMsgs(c) IN
        /\ Len(lm) <= Len(picked[c])
        /\ \A k \in 1..Len(lm) : lm[k].frame = picked[c][k]
        /\ conn[c] = "open" =>
              Len(picked[c]) =
                  Len(lm) + (IF loop_task[c] = "await" THEN 1 ELSE 0)

\* C5 witness: on an open connection frames 1 and 3 were answered, one by an
\* error and one by predictions, and the dropped frame 2 has no message.
C5_Witness ==
    \E c \in Conns :
        /\ conn[c] = "open"
        /\ arrived[c] = 3
        /\ Len(LoopMsgs(c)) = 2
        /\ LoopMsgs(c)[1] = LoopMsg("error", 1)
        /\ LoopMsgs(c)[2] = LoopMsg("predictions", 3)

\* C6: at most MAX_INFERENCE_WORKERS classifier calls run at any instant,
\* whoever submitted them.
C6_PoolBound == Cardinality(running) <= MAX_INFERENCE_WORKERS

\* C6 witness: all workers are running, WebSocket and HTTP work among it,
\* and a further submission waits in the queue.
C6_Witness ==
    /\ Cardinality(running) = MAX_INFERENCE_WORKERS
    /\ queue # <<>>
    /\ \E j \in running : j.src = "http"
    /\ \E j \in running : j.src = "ws"

\* C7: when the handler sees the disconnect, the loop is cancelled (if it
\* had not ended), busy is cleared and no exception leaves the handler; after
\* the close nothing is sent, no frame is picked up and no classification of
\* the connection is started.
RunningOf(c, r) == {j \in r : ~NotOf(c, j)}

C7_CloseInFlight ==
    [][\A c \in Conns :
         /\ (conn[c] = "closing" /\ conn'[c] = "closed") =>
               /\ loop_task'[c] \in {"cancelled", "done"}
               /\ loop_task[c] = "await" => loop_task'[c] = "cancelled"
               /\ ~busy'[c]
               /\ ~handlerExc'[c]
         /\ conn[c] = "closed" =>
               /\ outbox'[c] = outbox[c]
               /\ picked'[c] = picked[c]
               /\ ~busy'[c]
               /\ RunningOf(c, running') \subseteq RunningOf(c, running)]_vars

\* C7 witness: a connection was closed by its peer while a classification
\* was running and a frame was pending.
C7_Witness ==
    \E c \in Conns :
        /\ conn[c] = "closed"
        /\ ~handlerExc[c]
        /\ loop_task[c] = "cancelled"
        /\ pending_frame[c] # None
        /\ RunningOf(c, running) # {}

\* The scheduler loop has sent a message for frame f of connection c
Answered(c, f) == \E k \in 1..Len(LoopMsgs(c)) : LoopMsgs(c)[k].frame = f

\* C4: under FairSpec, while the connection stays open the most recently
\* arrived frame is eventually picked up and answered, unless a newer frame
\* arrives first.
C4_LatestEventuallyProcessed ==
    \A c \in Conns : \A f \in 1..MaxMsgs :
        (arrived[c] = f)
            ~> (conn[c] # "open" \/ arrived[c] > f \/ Answered(c, f))

\* C4 witness: a burst of three frames on an open connection ended with the
\* last frame answered, the middle one dropped.
C4_Witness ==
    \E c \in Conns :
        /\ conn[c] = "open"
        /\ arrived[c] = 3
        /\ Answered(c, 3)
        /\ ~Answered(c, 2)

\* C8: no text message makes an exception escape the handler.
C8_NoMessageEscapes == \A c \in Conns : ~handlerExc[c]

\* A well-formed base64 text: quads of alphabet characters, the last quad
\* ending in at most two pads
WellFormedB64(s) ==
    /\ Len(s) % 4 = 0
    /\ \A i \in 1..Len(s) : s[i] \in {"A", "="}
    /\ \A i \in 1..Len(s) : s[i] = "=" => i > Len(s) - 2
    /\ \A i \in 1..Len(s) : s[i] = "=" => \A k \in i..Len(s) : s[k] = "="

\* The messages C9 names: oversized, malformed JSON, no 'frame' key, invalid
\* base64
NamedByC9(m) ==
    \/ m.len > WsLimitLen
    \/ m.json \in {"malformed", "object-"}
    \/ m.json = "object" /\ ~WellFormedB64(m.frame)

\* C9: each oversized, malformed, keyless or invalid-base64 message is
\* answered with an error message and leaves the connection open.
C9_BadMessageAnswered ==
    [][\A c \in Conns : \A m \in Msgs :
         (ReceiveText(c, m) /\ NamedByC9(m))
             => /\ outbox'[c] = Append(outbox[c], RecvMsg(RecvOutcome(m)))
                /\ conn'[c] = "open"]_vars

\* C10: when the classification of a picked-up frame has failed on an open
\* connection, the loop sends the error for that frame, leaves busy set only
\* if it takes the next frame in the same step, and goes on: it waits for a
\* frame or classifies the one the mailbox held.  On an open connection the
\* loop is always alive.
C10_ErrorKeepsLoop ==
    /\ [](\A c \in Conns :
            conn[c] = "open" => loop_task[c] \in {"poll", "await"})
    /\ [][\A c \in Conns :
            (fut[c] = "fail" /\ fut'[c] # "fail" /\ conn'[c] = "open") =>
                /\ outbox'[c] =
                      Append(outbox[c], LoopMsg("error", frame_bytes[c]))
                /\ IF pending_frame[c] = None
                   THEN loop_task'[c] = "poll" /\ ~busy'[c]
                   ELSE /\ loop_task'[c] = "await" /\ busy'[c]
                        /\ picked'[c] = Append(picked[c], pending_frame[c])]_vars

\* C10 witness: on an open connection the loop answered frame 1 with an
\* error and a later frame with predictions.
C10_Witness ==
    \E c \in Conns :
        /\ conn[c] = "open"
        /\ Len(LoopMsgs(c)) >= 2
        /\ LoopMsgs(c)[1].kind = "error"
        /\ LoopMsgs(c)[2].kind = "predictions"
        /\ loop_task[c] = "poll"

\* The jobs of upload h in the executor
HttpJobsOf(h, q, r) ==
    {j \in r : j = HttpJob(h)} \cup {q[i] : i \in {k \in 1..Len(q) : q[k] = HttpJob(h)}}

\* C11: an upload whose content type is not allowed or whose body exceeds
\* MAX_UPLOAD_BYTES is answered with 400 and submits nothing to the executor;
\* a classification of an upload is submitted only by a request with an
\* allowed type and a body of at most MAX_UPLOAD_BYTES.
C11_UploadGuards ==
    [][\A h \in Https :
         /\ \A ctype \in ContentTypes, size \in UploadSizes :
               (HttpRequest(h, ctype, size)
                /\ (ctype \notin ALLOWED_MIME_TYPES \/ size > MAX_UPLOAD_BYTES))
                   => /\ http'[h].pc = "done" /\ http'[h].status = 400
                      /\ queue' = queue /\ running' = running
         /\ (HttpJobsOf(h, queue', running') # HttpJobsOf(h, queue, running)
             /\ HttpJobsOf(h, queue', running') # {})
               => \E ctype \in ALLOWED_MIME_TYPES :
                     \E size \in {s \in UploadSizes : s <= MAX_UPLOAD_BYTES} :
                         HttpRequest(h, ctype, size)]_vars

\* C11 witness: one upload was refused for its size, with nothing submitted.
C11_Witness ==
    \E h \in Https :
        /\ http[h] = Response("done", 400, "File too large.")
        /\ HttpJobsOf(h, queue, running) = {}

\* ------------------------------------------------------------------------
\* Properties of start-up and _predict_sync
\* ------------------------------------------------------------------------
\* The places of S by descending confidence, equal confidences by ascending
\* place
RECURSIVE Descending(_, _)
Descending(v, S) ==
    IF S = {} THEN <<>>
    ELSE LET m == CHOOSE x \in S :
                      \A y \in S : v[x] > v[y] \/ (v[x] = v[y] /\ x <= y)
         IN  <<m>> \o Descending(v, S \ {m})

\* Sort descending by confidence, ties by ascending index, truncate to K,
\* filter by the floor
Reference(v, k, floor) ==
    FormatResults(v, SubSeq(Descending(v, DOMAIN v), 1,
                            IF k < Len(v) THEN k ELSE Len(v)), floor)

\* The configuration is the one of config.py
Configured == top_k = TOP_K /\ threshold = CONFIDENCE_THRESHOLD

\* The confidence of the classifier for a label
RawOf(label) == raw[CHOOSE i \in DOMAIN raw : Label(i) = label]

\* C12 as stated: the prediction equals the reference, ties by ascending
\* label index.
C12_TiesAscendingIndex ==
    (predicted /\ Configured) => results = Reference(raw, top_k, threshold)

\* C12: the prediction has the length of the reference and, at every
\* position, the reference's confidence and a label whose raw confidence is
\* that of the reference's label (the same label when no other label has that
\* confidence); no label appears twice.  Which of several labels of equal
\* confidence comes first, or is kept at the cut to K, is not fixed.
C12_TopKByConfidence ==
    (predicted /\ Configured) =>
        LET ref == Reference(raw, top_k, threshold)
        IN  /\ Len(results) = Len(ref)
            /\ \A i \in 1..Len(results) :
                  /\ results[i].confidence = ref[i].confidence
                  /\ RawOf(results[i].label) = RawOf(ref[i].label)
            /\ \A i, j \in 1..Len(results) :
                  i # j => results[i].label # results[j].label

\* C12 witness: two labels of equal confidence above the floor, returned
\* with the higher index first.
C12_Witness ==
    /\ predicted /\ Configured
    /\ Len(results) >= 2
    /\ \E i, j \in DOMAIN raw :
          /\ i < j /\ raw[i] = raw[j]
          /\ results[1].label = Label(j)
          /\ results[2].label = Label(i)

\* C13: for every TOP_K and CONFIDENCE_THRESHOLD, the prediction has at most
\* TOP_K entries, each of confidence at least the threshold, in order of
\* non-increasing confidence, and is empty when every confidence is below
\* the threshold.
C13_PredictionShape ==
    predicted =>
        /\ Len(results) <= top_k
        /\ \A i \in 1..Len(results) : results[i].confidence >= threshold
        /\ \A i \in 1..(Len(results) - 1) :
              results[i].confidence >= results[i + 1].confidence
        /\ (\A i \in DOMAIN raw : Confidence(raw[i]) < threshold)
               => results = <<>>

\* C14: with a classifier output dimension that differs from the length of
\* the label set the import fails: the executor is never created and no
\* classification ever runs.
C14_MismatchNeverServes ==
    output_shape # Len(CLASS_NAMES) =>
        /\ boot \in {"importing", "failed"}
        /\ ~executor
        /\ ~predicted

\* C14 witness: the import has failed on a mismatch, without an executor.
C14_Witness ==
    /\ boot = "failed"
    /\ output_shape # Len(CLASS_NAMES)
    /\ ~executor

\* ------------------------------------------------------------------------
\* Properties of the scheduler loop and of the close (continued)
\* ------------------------------------------------------------------------
LoopAlive(c) == loop_task[c] \in {"poll", "await"}

\* C15 as stated: in every state where the connection has not been closed
\* the scheduler loop is alive.
C15_LoopAliveUntilClosed ==
    \A c \in Conns : conn[c] # "closed" => LoopAlive(c)

\* C15: the scheduler loop ends in two ways only: cancelled by the handler
\* in the step that closes the connection, or by `break` when the send of a
\* result failed, which happens only after the peer has gone; no step on an
\* open connection ends it.  Under FairSpec a non-empty mailbox with nothing
\* in flight on an open connection is picked up, unless the connection
\* leaves the open state first.
C15_LoopEndsOnlyWithPeerGone ==
    /\ [][\A c \in Conns :
            (LoopAlive(c) /\ ~LoopAlive(c)') =>
                \/ /\ conn[c] # "closed" /\ conn'[c] = "closed"
                   /\ loop_task'[c] = "cancelled"
                \/ /\ conn[c] = "closing" /\ conn'[c] = "closing"
                   /\ loop_task[c] = "await" /\ fut[c] # "none"
                   /\ loop_task'[c] = "done"
                   /\ outbox'[c] = outbox[c]
                   /\ ~busy'[c]]_vars
    /\ \A c \in Conns :
          (conn[c] = "open" /\ pending_frame[c] # None /\ InFlight(c) = 0)
              ~> (conn[c] # "open" \/ InFlight(c) > 0)

\* C15 witness: the peer has gone, the send of the result of a frame failed
\* and the loop has left by `break` before the handler closed the connection,
\* with a frame still in the mailbox.
C15_Witness ==
    \E c \in Conns :
        /\ conn[c] = "closing"
        /\ loop_task[c] = "done"
        /\ frame_bytes[c] # None
        /\ pending_frame[c] # None
        /\ ~busy[c]

\* C16: a frame is picked up only from a non-empty mailbox while no
\* classification of the connection is in flight, and the pick-up is one
\* step in which no frame arrives: it takes the frame of the mailbox, empties
\* the mailbox, sets busy and submits the frame.  The most recently accepted
\* frame is always either in the mailbox or picked up, so a frame leaves the
\* mailbox unclassified only when a newer frame overwrites it (or stays in
\* it when the connection closes).
C16_AtomicPickUp ==
    /\ [](\A c \in Conns :
            arrived[c] > 0 =>
                \/ pending_frame[c] = arrived[c]
                \/ /\ pending_frame[c] = None
                   /\ picked[c] # <<>>
                   /\ picked[c][Len(picked[c])] = arrived[c])
    /\ [][\A c \in Conns :
            picked'[c] # picked[c] =>
                /\ pending_frame[c] # None
                /\ InFlight(c) = 0
                /\ arrived' = arrived
                /\ frame_bytes'[c] = pending_frame[c]
                /\ pending_frame'[c] = None
                /\ busy'[c]
                /\ loop_task'[c] = "await"
                /\ queue' = Append(queue, WsJob(c, pending_frame[c]))]_vars

\* C16 witness: frame 2 was picked up after it superseded frame 1, and
\* frame 3 arrived while frame 2 is in flight.
C16_Witness ==
    \E c \in Conns :
        /\ picked[c] = <<2>>
        /\ busy[c]
        /\ InFlight(c) = 1
        /\ pending_frame[c] = 3

\* C17: the step that accepts a frame on a connection puts it in that
\* connection's mailbox and changes nothing else of the scheduling: busy,
\* the frame being classified, the loop and the executor are as before, for
\* this connection and every other, and so are the other mailboxes.
C17_ArrivalIsLocal ==
    [][\A c \in Conns :
         arrived'[c] # arrived[c] =>
             /\ pending_frame'[c] = arrived'[c]
             /\ \A d \in Conns \ {c} : pending_frame'[d] = pending_frame[d]
             /\ busy' = busy
             /\ frame_bytes' = frame_bytes
             /\ loop_task' = loop_task
             /\ fut' = fut
             /\ picked' = picked
             /\ queue' = queue
             /\ running' = running]_vars

\* C17 witness: a frame arrived on one connection while that connection was
\* classifying an earlier frame and another connection had its own frame
\* pending.
C17_Witness ==
    \E c, d \in Conns :
        /\ c # d
        /\ busy[c] /\ frame_bytes[c] = 1 /\ InFlight(c) = 1
        /\ pending_frame[c] = 2
        /\ pending_frame[d] = 1
        /\ ~busy[d]

\* C18 as stated: whatever the connection had submitted to the executor
\* when it closes stays there, to run to completion.
C18_SubmittedSurvivesClose ==
    [][\A c \in Conns :
         (conn[c] # "closed" /\ conn'[c] = "closed")
             => InFlight(c)' = InFlight(c)]_vars

\* C18: the close leaves alone the classifications of the connection that a
\* worker thread is running and cancels those still in the executor's queue,
\* which never run; after the close no result reaches the connection's loop
\* and nothing is sent, no classification of the connection is started, and
\* under FairSpec every running one completes and frees its worker.
C18_RunningOutlivesClose ==
    /\ [][\A c \in Conns :
            /\ (conn[c] # "closed" /\ conn'[c] = "closed") =>
                  /\ RunningOf(c, running') = RunningOf(c, running)
                  /\ \A i \in 1..Len(queue') : NotOf(c, queue'[i])
            /\ conn[c] = "closed" =>
                  /\ fut'[c] = "none"
                  /\ outbox'[c] = outbox[c]
                  /\ \A i \in 1..Len(queue') : NotOf(c, queue'[i])
                  /\ RunningOf(c, running') \subseteq RunningOf(c, running)]_vars
    /\ \A c \in Conns :
          (conn[c] = "closed" /\ RunningOf(c, running) # {})
              ~> (RunningOf(c, running) = {})

\* C18 witness: a connection is closed, its classification is still running
\* and every worker is occupied.
C18_Witness ==
    \E c \in Conns :
        /\ conn[c] = "closed"
        /\ ~handlerExc[c]
        /\ RunningOf(c, running) # {}
        /\ Cardinality(running) = MAX_INFERENCE_WORKERS

\* The texts of the error replies of the receive loop
RejectTexts ==
    {"Frame too large.", "Invalid JSON.", "Missing 'frame' key.",
     "Invalid base64 in 'frame'."}

\* C19: a step in which the receive loop answers a message with an error
\* reply (too large, not JSON, no 'frame' key, base64 that b64decode does not
\* accept) changes nothing but the outbox: the mailboxes, busy, the frame
\* being classified, the loop and the executor are as before.
C19_RejectKeepsState ==
    [][\A c \in Conns :
         /\ (/\ Len(outbox'[c]) = Len(outbox[c]) + 1
             /\ outbox'[c][Len(outbox'[c])].src = "recv")
               => /\ pending_frame' = pending_frame
                  /\ arrived' = arrived
                  /\ busy' = busy
                  /\ frame_bytes' = frame_bytes
                  /\ loop_task' = loop_task
                  /\ fut' = fut
                  /\ picked' = picked
                  /\ queue' = queue
                  /\ running' = running
         /\ \A m \in MsgSamples :
               (RecvOutcome(m) \in RejectTexts /\ ReceiveText(c, m))
                   => /\ pending_frame' = pending_frame
                      /\ busy' = busy
                      /\ frame_bytes' = frame_bytes
                      /\ queue' = queue
                      /\ running' = running]_vars

\* C19 witness: a message was rejected while a frame was being classified
\* and a newer frame was pending; both are still there.
C19_Witness ==
    \E c \in Conns :
        /\ busy[c] /\ frame_bytes[c] = 1 /\ InFlight(c) = 1
        /\ pending_frame[c] = 2
        /\ outbox[c] # <<>>
        /\ outbox[c][Len(outbox[c])].src = "recv"

====
